---- MODULE Spec2Model ----
(***************************************************************************)
(* RSCAN desktop back end: the point-cloud store (point_cloud.rs), its PLY *)
(* reader, the two in-place filters, and the three Tauri commands that     *)
(* share one session object (commands.rs, lib.rs).                         *)
(*                                                                         *)
(* f32 values are modelled as fixed-point numbers with Scale units per     *)
(* 1.0; every arithmetic operation rounds its result to the nearest        *)
(* representable value, and NaN is a value of its own that makes every     *)
(* comparison false.                                                       *)
(***************************************************************************)
EXTENDS Integers, Sequences, FiniteSets, TLC

VARIABLES
    store,      \* PointCloud under the filters: [points, colors, normals]
    orig,       \* the store as it was constructed (history, for the alignment claims)
    lastOp,     \* the last mutator applied to store, with its arguments
    panicked,   \* TRUE once a mutator on store has unwound with a panic
    rd,         \* from_ply's locals while it reads one file
    cloud,      \* AppState.cloud : Mutex<Option<PointCloud>> (the value)
    cloudLock,  \* owner of AppState.cloud's mutex, or NoOne
    poisoned,   \* AppState.cloud's mutex is poisoned (a holder panicked)
    status,     \* AppState.status : Mutex<ProcessingStatus> (the value)
    pc,         \* per caller: position inside the command it runs
    local,      \* per caller: the command's arguments and locals
    ret         \* per caller: what its last command returned

storeVars == <<store, orig, lastOp, panicked>>
sessionVars == <<cloud, cloudLock, poisoned, status, pc, local, ret>>
vars == <<store, orig, lastOp, panicked, rd, cloud, cloudLock, poisoned, status, pc, local, ret>>

-----------------------------------------------------------------------------
(* Bounds of the model *)

MaxLen == 3          \* longest points sequence a store is constructed with
MaxLines == 4        \* longest file the reader is run on
MaxEofReads == 2     \* read_line calls at the end of the file that are counted

-----------------------------------------------------------------------------
(* f32 arithmetic *)

Scale == 100
I32Max == 2147483647
I32Min == -2147483647 - 1

\* an f32: NaN, or the finite value v / Scale
NaN == [nan |-> TRUE, v |-> 0]
Fin(v) == [nan |-> FALSE, v |-> v]

IsNaN(a) == a.nan

\* nearest integer to a / b, b > 0
RoundDiv(a, b) == (2 * a + b) \div (2 * b)

F32(c) == Fin(c * Scale)

FAdd(a, b) == IF IsNaN(a) \/ IsNaN(b) THEN NaN ELSE Fin(a.v + b.v)
FSub(a, b) == IF IsNaN(a) \/ IsNaN(b) THEN NaN ELSE Fin(a.v - b.v)
FMul(a, b) == IF IsNaN(a) \/ IsNaN(b) THEN NaN ELSE Fin(RoundDiv(a.v * b.v, Scale))
\* 0.0 / 0.0 is NaN; the model never divides a non-zero value by zero
FDiv(a, b) ==
    IF IsNaN(a) \/ IsNaN(b) THEN NaN
    ELSE IF b.v = 0 THEN NaN
    ELSE IF b.v > 0 THEN Fin(RoundDiv(a.v * Scale, b.v))
    ELSE Fin(RoundDiv(-(a.v * Scale), -b.v))
\* every comparison with NaN is false
FLt(a, b) == IF IsNaN(a) \/ IsNaN(b) THEN FALSE ELSE a.v < b.v

RECURSIVE ISqrtIn(_, _, _)
\* the largest r in lo..hi with r * r <= x
ISqrtIn(x, lo, hi) ==
    IF lo >= hi THEN lo
    ELSE LET mid == (lo + hi + 1) \div 2
         IN IF mid * mid <= x THEN ISqrtIn(x, mid, hi) ELSE ISqrtIn(x, lo, mid - 1)

\* 46340 * 46340 is the largest square below 2^31
ISqrt(x) == ISqrtIn(x, 0, IF x < 46340 THEN x ELSE 46340)

FSqrt(a) ==
    IF IsNaN(a) THEN NaN
    ELSE IF a.v < 0 THEN NaN
    ELSE Fin((ISqrt(4 * a.v * Scale) + 1) \div 2)

FPowi2(a) == FMul(a, a)

\* f32::floor followed by `as i32`: the cast saturates and sends NaN to 0
FloorAsI32(a) ==
    IF IsNaN(a) THEN 0
    ELSE LET f == a.v \div Scale
         IN IF f > I32Max THEN I32Max ELSE IF f < I32Min THEN I32Min ELSE f

RECURSIVE FSum(_)
\* Iterator::sum::<f32>() : left to right from 0.0
FSum(s) == IF s = <<>> THEN Fin(0) ELSE FAdd(FSum(SubSeq(s, 1, Len(s) - 1)), s[Len(s)])

-----------------------------------------------------------------------------
(* PointCloud *)

NoColor == "none"

PointCloud(p, c, n) == [points |-> p, colors |-> c, normals |-> n]

PointCloudNew == PointCloud(<<>>, <<>>, <<>>)

\* the indices of a Vec, 1-based here
Indices(s) == 1..Len(s)

SeqsUpTo(S, n) == UNION {[1..m -> S] : m \in 0..n}

\* self.points[i] for each i of indices, in that order; indexing panics past the end
Gather(s, indices) == [j \in 1..Len(indices) |-> s[indices[j]]]

GatherPanics(s, indices) == \E j \in 1..Len(indices) : indices[j] > Len(s)

\* iter().zip(&mask).filter(|(_, &m)| m).map(|(p, _)| *p).collect()
RECURSIVE ZipFilter(_, _)
ZipFilter(s, mask) ==
    IF s = <<>> \/ mask = <<>> THEN <<>>
    ELSE IF mask[1] THEN <<s[1]>> \o ZipFilter(Tail(s), Tail(mask))
    ELSE ZipFilter(Tail(s), Tail(mask))

-----------------------------------------------------------------------------
(* voxel_downsample *)

\* (p / voxel_size) as i32 without the floor: the cast truncates toward zero
TruncAsI32(a) ==
    IF IsNaN(a) THEN 0
    ELSE IF a.v >= 0 THEN a.v \div Scale ELSE -((-a.v) \div Scale)

CellKeyTruncating(p, voxel_size) ==
    <<TruncAsI32(FDiv(F32(p[1]), F32(voxel_size))),
      TruncAsI32(FDiv(F32(p[2]), F32(voxel_size))),
      TruncAsI32(FDiv(F32(p[3]), F32(voxel_size)))>>

CellKey(p, voxel_size) ==
    <<FloorAsI32(FDiv(F32(p[1]), F32(voxel_size))),
      FloorAsI32(FDiv(F32(p[2]), F32(voxel_size))),
      FloorAsI32(FDiv(F32(p[3]), F32(voxel_size)))>>

\* the scan starting at the second point (enumerate().skip(1))
VoxelFirstIndicesSkipFirst(points, voxel_size) ==
    {i \in Indices(points) \ {1} :
        \A j \in Indices(points) \ {1} :
            CellKey(points[j], voxel_size) = CellKey(points[i], voxel_size) => i <= j}

\* voxels.entry(key).or_insert((i, *p)) over the points in order: the map's
\* values are the first index seen for each key
VoxelFirstIndices(points, voxel_size) ==
    {i \in Indices(points) :
        \A j \in Indices(points) :
            CellKey(points[j], voxel_size) = CellKey(points[i], voxel_size) => i <= j}

\* voxels.values() : HashMap iterates in an order of its own, which a fresh
\* RandomState may change from one map to the next
ValuesOrders(S) ==
    {f \in [1..Cardinality(S) -> S] : \A a, b \in 1..Cardinality(S) : f[a] = f[b] => a = b}

\* the colors cut to the new length instead of gathered by index
VoxelColorsTruncated(colors, indices) ==
    IF colors # <<>> THEN SubSeq(colors, 1, Len(indices)) ELSE colors

VoxelColors(colors, indices) ==
    IF colors # <<>> THEN Gather(colors, indices) ELSE colors

VoxelPanics(colors, indices) == colors # <<>> /\ GatherPanics(colors, indices)

\* the store after voxel_downsample when the map yields its values as indices;
\* self.points is assigned before the colors are gathered
VoxelResult(s, indices) ==
    IF VoxelPanics(s.colors, indices)
    THEN [s EXCEPT !.points = Gather(s.points, indices)]
    ELSE [s EXCEPT !.points = Gather(s.points, indices),
                   !.colors = VoxelColors(s.colors, indices)]

-----------------------------------------------------------------------------
(* remove_outliers *)

Column(points, a) == [i \in Indices(points) |-> F32(points[i][a])]

Mean(points) ==
    [a \in 1..3 |-> FDiv(FSum(Column(points, a)), F32(Len(points)))]

\* ((p[0] - mean[0]).powi(2) + (p[1] - mean[1]).powi(2) + (p[2] - mean[2]).powi(2)).sqrt()
Dist(p, mean) ==
    FSqrt(FAdd(FAdd(FPowi2(FSub(F32(p[1]), mean[1])),
                    FPowi2(FSub(F32(p[2]), mean[2]))),
               FPowi2(FSub(F32(p[3]), mean[3]))))

\* (a bound variable holds a value computed once: the locals of the code)
Distances(points) ==
    CHOOSE d \in {[i \in Indices(points) |-> Dist(points[i], mean)] :
                    mean \in {Mean(points)}} : TRUE

MeanDist(distances) == FDiv(FSum(distances), F32(Len(distances)))

Std(distances, mean_dist) ==
    FSqrt(FDiv(FSum([i \in Indices(distances) |-> FPowi2(FSub(distances[i], mean_dist))]),
               F32(Len(distances))))

Threshold(distances, std_ratio) ==
    CHOOSE t \in {FAdd(mean_dist, FMul(F32(std_ratio), Std(distances, mean_dist))) :
                    mean_dist \in {MeanDist(distances)}} : TRUE

\* *d <= threshold
KeepsInclusive(d, threshold) == ~IsNaN(d) /\ ~IsNaN(threshold) /\ d.v <= threshold.v

Keeps(d, threshold) == FLt(d, threshold)

MaskOf(distances, std_ratio) ==
    CHOOSE m \in {[i \in Indices(distances) |-> Keeps(distances[i], threshold)] :
                    threshold \in {Threshold(distances, std_ratio)}} : TRUE

OutlierMask(points, std_ratio) ==
    CHOOSE m \in {MaskOf(distances, std_ratio) : distances \in {Distances(points)}} : TRUE

OutlierColors(colors, mask) ==
    IF colors # <<>> THEN ZipFilter(colors, mask) ELSE colors

TooFew(points, k) == Len(points) < k

RemoveOutliersResult(s, k, std_ratio) ==
    IF TooFew(s.points, k) THEN s
    ELSE CHOOSE r \in {[s EXCEPT !.points = ZipFilter(s.points, mask),
                                 !.colors = OutlierColors(s.colors, mask)] :
                          mask \in {OutlierMask(s.points, std_ratio)}} : TRUE

-----------------------------------------------------------------------------
(* from_ply *)

\* A file is its lines and a line is its whitespace-separated tokens; a line
\* that is not valid UTF-8 is the one token InvalidUtf8.
InvalidUtf8 == <<"\\xff">>
NoFile == [exists |-> FALSE, lines |-> <<>>]
File(lines) == [exists |-> TRUE, lines |-> lines]

\* str::parse on the numerals the model's files use
Num == ("-1" :> -1) @@ ("0" :> 0) @@ ("1" :> 1) @@ ("2" :> 2) @@ ("3" :> 3) @@ ("255" :> 255)
ParsesI32(tok) == tok \in DOMAIN Num
ParsesF32(tok) == tok \in DOMAIN Num
ParsesU8(tok) == tok \in DOMAIN Num /\ Num[tok] >= 0 /\ Num[tok] <= 255

StartsWithElementVertex(line) == Len(line) >= 2 /\ line[1] = "element" /\ line[2] = "vertex"
ContainsRed(line) == \E j \in Indices(line) : line[j] = "red"
IsEndHeader(line) == line = <<"end_header">>

NoResult == [tag |-> "none", cloud |-> PointCloudNew]
Ok(c) == [tag |-> "Ok", cloud |-> c]
Err == [tag |-> "Err", cloud |-> PointCloudNew]
Panic == [tag |-> "Panic", cloud |-> PointCloudNew]

ReaderIdle ==
    [pc |-> "idle", file |-> NoFile, pos |-> 0, line |-> <<>>, vertex_count |-> 0,
     has_color |-> FALSE, cloud |-> PointCloudNew, i |-> 0, eof_reads |-> 0,
     result |-> NoResult]

ReaderStart(file) == [ReaderIdle EXCEPT !.pc = "open", !.file = file]

Ended(r, result) == [r EXCEPT !.pc = "done", !.result = result]

\* File::open(path).map_err(..)?
OpenFile(r) ==
    IF r.file.exists THEN [r EXCEPT !.pc = "header"] ELSE Ended(r, Err)

AtEof(r) == r.pos >= Len(r.file.lines)

ReadFails(r) == ~AtEof(r) /\ r.file.lines[r.pos + 1] = InvalidUtf8

\* line.clear(); reader.read_line(&mut line): at the end of the file read_line
\* returns Ok(0) and leaves the line empty. eof_reads counts those reads, up to
\* MaxEofReads.
ReadLine(r) ==
    IF AtEof(r)
    THEN [r EXCEPT !.line = <<>>,
                   !.eof_reads = IF @ < MaxEofReads THEN @ + 1 ELSE @]
    ELSE [r EXCEPT !.line = r.file.lines[r.pos + 1], !.pos = @ + 1]

\* line.split_whitespace().nth(2).unwrap().parse().unwrap()
VertexCountPanics(line) == Len(line) < 3 \/ ~ParsesI32(line[3])

\* the body of the header loop once the line is read
HeaderParse(r) ==
    IF StartsWithElementVertex(r.line) /\ VertexCountPanics(r.line) THEN Ended(r, Panic)
    ELSE LET counted == IF StartsWithElementVertex(r.line)
                        THEN [r EXCEPT !.vertex_count = Num[r.line[3]]] ELSE r
             marked == IF ContainsRed(r.line) THEN [counted EXCEPT !.has_color = TRUE]
                       ELSE counted
         IN IF IsEndHeader(r.line)
            THEN [marked EXCEPT !.pc = "body", !.cloud = PointCloudNew, !.i = 0]
            ELSE marked

\* one iteration of the header loop
HeaderIteration(r) ==
    IF ReadFails(r) THEN Ended(r, Err) ELSE HeaderParse(ReadLine(r))

PointPanics(vals) ==
    Len(vals) < 3 \/ \E j \in 1..3 : ~ParsesF32(vals[j])

HasColorTokens(r, vals) == r.has_color /\ Len(vals) >= 6

ColorPanics(vals) == \E j \in 4..6 : ~ParsesU8(vals[j])

\* the body of the vertex loop once the line is read
BodyParse(r) ==
    LET vals == r.line
    IN IF PointPanics(vals) THEN Ended(r, Panic)
       ELSE IF HasColorTokens(r, vals) /\ ColorPanics(vals) THEN Ended(r, Panic)
       ELSE [r EXCEPT
               !.cloud.points = Append(@, <<Num[vals[1]], Num[vals[2]], Num[vals[3]]>>),
               !.cloud.colors = IF HasColorTokens(r, vals)
                                THEN Append(@, <<Num[vals[4]], Num[vals[5]], Num[vals[6]]>>)
                                ELSE @,
               !.i = @ + 1]

\* one iteration of `for _ in 0..vertex_count`
BodyIteration(r) ==
    IF ReadFails(r) THEN Ended(r, Err) ELSE BodyParse(ReadLine(r))

ReaderStep(r) ==
    CASE r.pc = "open" -> OpenFile(r)
      [] r.pc = "header" -> HeaderIteration(r)
      [] r.pc = "body" /\ r.i < r.vertex_count -> BodyIteration(r)
      [] r.pc = "body" /\ r.i >= r.vertex_count -> Ended(r, Ok(r.cloud))
      [] OTHER -> r

Hang == [tag |-> "Hang", cloud |-> PointCloudNew]

RECURSIVE RunReader(_)
\* from_ply run to its end; the header loop at the end of the file reads an
\* empty line, matches nothing and repeats, forever
RunReader(r) ==
    IF r.pc = "done" THEN r.result
    ELSE IF r.pc = "header" /\ AtEof(r) THEN Hang
    ELSE RunReader(ReaderStep(r))

FromPly(file) == RunReader(ReaderStart(file))

-----------------------------------------------------------------------------
(* The store under its two mutators *)

Pts == {<<0, 0, 0>>, <<1, 1, 1>>, <<-1, 0, 0>>}
Nrm == <<0, 0, 1>>
VoxelSizes == {1, 2}
Ks == {0, 3}
StdRatios == {1, 2}

\* the i-th colour a store is constructed with: all distinct, so that a colour
\* names the point it was constructed beside
ColorAt(i) == <<i, 255, 0>>

NoOp == [op |-> "none", voxel_size |-> 0, k |-> 0, std_ratio |-> 0, again |-> FALSE]

\* a call as lastOp records it; again: the call before it was the same call
Call(op, voxel_size, k, std_ratio) ==
    LET c == [op |-> op, voxel_size |-> voxel_size, k |-> k, std_ratio |-> std_ratio]
    IN [op |-> op, voxel_size |-> voxel_size, k |-> k, std_ratio |-> std_ratio,
        again |-> c = [f \in {"op", "voxel_size", "k", "std_ratio"} |-> lastOp[f]]]

\* colors: empty, aligned, or shorter than points (a reader's header/body
\* mismatch); normals: empty or aligned
Stores ==
    {PointCloud(p, [i \in 1..c |-> ColorAt(i)], [i \in 1..n |-> Nrm]) :
        <<p, c, n>> \in {<<p, c, n>> \in SeqsUpTo(Pts, MaxLen) \X (0..MaxLen) \X (0..MaxLen) :
                            c <= Len(p) /\ n \in {0, Len(p)}}}

Callers == {"a", "b"}
NoOne == "nobody"
None == <<>>
Some(x) == <<x>>
Unwrap(o) == o[1]
UnwrapOr(o, d) == IF o = None THEN d ELSE o[1]

StatusDefault == [stage |-> "", progress |-> 0, point_count |-> 0]
NoLocal == [options |-> None, cloud |-> None, result |-> None]
NoRet == [cmd |-> "none", tag |-> "none", value |-> None]

SessionIdle ==
    /\ cloud = None
    /\ cloudLock = NoOne
    /\ poisoned = FALSE
    /\ status = StatusDefault
    /\ pc = [c \in Callers |-> "idle"]
    /\ local = [c \in Callers |-> NoLocal]
    /\ ret = [c \in Callers |-> NoRet]

InitStore ==
    /\ store \in Stores
    /\ orig = store
    /\ lastOp = NoOp
    /\ panicked = FALSE
    /\ rd = ReaderIdle
    /\ SessionIdle

VoxelDownsample(voxel_size) ==
    /\ ~panicked
    /\ \E indices \in ValuesOrders(VoxelFirstIndices(store.points, voxel_size)) :
          /\ store' = VoxelResult(store, indices)
          /\ panicked' = VoxelPanics(store.colors, indices)
    /\ lastOp' = Call("voxel_downsample", voxel_size, 0, 0)
    /\ UNCHANGED <<orig, rd, sessionVars>>

RemoveOutliers(k, std_ratio) ==
    /\ ~panicked
    /\ store' = RemoveOutliersResult(store, k, std_ratio)
    /\ lastOp' = Call("remove_outliers", 0, k, std_ratio)
    /\ UNCHANGED <<orig, panicked, rd, sessionVars>>

NextStore ==
    \/ \E voxel_size \in VoxelSizes : VoxelDownsample(voxel_size)
    \/ \E k \in Ks, std_ratio \in StdRatios : RemoveOutliers(k, std_ratio)

SpecStore == InitStore /\ [][NextStore]_vars

-----------------------------------------------------------------------------
(* The reader on one file *)

LineSet ==
    {<<"element", "vertex", "2">>, <<"element", "vertex">>, <<"property", "uchar", "red">>,
     <<"end_header">>, <<"0", "0", "0">>, <<"1", "1", "1", "255", "0", "0">>, <<"0", "x">>,
     InvalidUtf8}

Files == {NoFile} \cup {File(l) : l \in SeqsUpTo(LineSet, MaxLines)}

InitReader ==
    /\ rd \in {ReaderStart(f) : f \in Files}
    /\ store = PointCloudNew
    /\ orig = PointCloudNew
    /\ lastOp = NoOp
    /\ panicked = FALSE
    /\ SessionIdle

Open ==
    /\ rd.pc = "open"
    /\ rd' = OpenFile(rd)
    /\ UNCHANGED <<storeVars, sessionVars>>

HeaderLine ==
    /\ rd.pc = "header"
    /\ rd' = HeaderIteration(rd)
    /\ UNCHANGED <<storeVars, sessionVars>>

BodyLine ==
    /\ rd.pc = "body"
    /\ rd.i < rd.vertex_count
    /\ rd' = BodyIteration(rd)
    /\ UNCHANGED <<storeVars, sessionVars>>

Return ==
    /\ rd.pc = "body"
    /\ rd.i >= rd.vertex_count
    /\ rd' = Ended(rd, Ok(rd.cloud))
    /\ UNCHANGED <<storeVars, sessionVars>>

NextReader == Open \/ HeaderLine \/ BodyLine \/ Return

SpecReader == InitReader /\ [][NextReader]_vars

\* C7: when the file ends before end_header is read, or before the declared
\* number of vertex lines is read, from_ply ends and returns Err.
C7_TruncatedLoadErrs ==
    rd.eof_reads > 0 => (rd.pc = "done" /\ rd.result.tag = "Err")

-----------------------------------------------------------------------------
(* The session: load_point_cloud, process_point_cloud, get_processing_status *)

DefaultOutlierK == 20
DefaultOutlierStd == 2

Paths == {"missing.ply", "plain.ply", "short.ply", "cut.ply"}

\* plain.ply: three vertices, no colour. short.ply: colour declared, the second
\* vertex line without its colour tokens. cut.ply: ends inside the header.
FileSystem(path) ==
    CASE path = "plain.ply" ->
            File(<<<<"ply">>, <<"element", "vertex", "3">>, <<"end_header">>,
                   <<"0", "0", "0">>, <<"0", "0", "0">>, <<"-1", "0", "0">>>>)
      [] path = "short.ply" ->
            File(<<<<"element", "vertex", "2">>, <<"property", "uchar", "red">>,
                   <<"end_header">>, <<"1", "1", "1", "255", "0", "0">>, <<"0", "0", "0">>>>)
      [] path = "cut.ply" ->
            File(<<<<"ply">>, <<"element", "vertex", "3">>>>)
      [] OTHER -> NoFile

ProcessOptions(voxel_size, remove_outliers, outlier_k, outlier_std) ==
    [voxel_size |-> voxel_size, remove_outliers |-> remove_outliers,
     outlier_k |-> outlier_k, outlier_std |-> outlier_std]

OptionSet ==
    {ProcessOptions(None, FALSE, None, None),
     ProcessOptions(Some(2), FALSE, None, None),
     ProcessOptions(Some(1), TRUE, Some(1), Some(1)),
     ProcessOptions(None, TRUE, None, None)}

MinOf(S) == CHOOSE x \in S : \A y \in S : x <= y
MaxOf(S) == CHOOSE x \in S : \A y \in S : y <= x

Bounds(points) ==
    IF points = <<>> THEN <<<<0, 0, 0>>, <<0, 0, 0>>>>
    ELSE <<[a \in 1..3 |-> MinOf({points[i][a] : i \in Indices(points)})],
           [a \in 1..3 |-> MaxOf({points[i][a] : i \in Indices(points)})]>>

LoadResult(c) ==
    [point_count |-> Len(c.points), has_colors |-> c.colors # <<>>, bounds |-> Bounds(c.points)]

Returned(cmd, tag, value) == [cmd |-> cmd, tag |-> tag, value |-> Some(value)]

ErrNoCloud == Returned("process_point_cloud", "Err", "No point cloud loaded")

\* what state.cloud holds once load_point_cloud has run from_ply: `?` returns
\* before the slot is touched unless from_ply returned Ok
StoredByLoadIgnoringErr(result, current) == Some(result.cloud)

StoredByLoad(result, current) ==
    IF result.tag = "Ok" THEN Some(result.cloud) ELSE current

\* the status block at the start of process_point_cloud placed before the check
StatusOnEntryUnchecked(st, slot) == [st EXCEPT !.stage = "Processing", !.progress = 0]

\* the status once process_point_cloud has passed `ok_or("No point cloud loaded")?`
\* and its first status block
StatusOnEntry(st, slot) ==
    IF slot = None THEN st ELSE [st EXCEPT !.stage = "Processing", !.progress = 0]

\* from_ply and the LoadResult; nothing of the session is read or written
LoadParse(c, path) ==
    /\ pc[c] = "idle"
    /\ \E result \in {FromPly(FileSystem(path))} :
          CASE result.tag = "Ok" ->
                 /\ pc' = [pc EXCEPT ![c] = "load_store"]
                 /\ local' = [local EXCEPT ![c] = [options |-> None,
                                                   cloud |-> Some(result.cloud),
                                                   result |-> Some(LoadResult(result.cloud))]]
                 /\ UNCHANGED <<cloud, ret>>
            [] result.tag = "Err" ->
                 /\ cloud' = StoredByLoad(result, cloud)
                 /\ ret' = [ret EXCEPT ![c] = Returned("load_point_cloud", "Err", path)]
                 /\ UNCHANGED <<pc, local>>
            [] result.tag = "Panic" ->
                 /\ pc' = [pc EXCEPT ![c] = "panicked"]
                 /\ UNCHANGED <<cloud, local, ret>>
            [] OTHER ->
                 /\ pc' = [pc EXCEPT ![c] = "hung"]
                 /\ UNCHANGED <<cloud, local, ret>>
    /\ UNCHANGED <<storeVars, rd, cloudLock, poisoned, status>>

\* *state.cloud.lock().unwrap() = Some(cloud); Ok(result)
LoadStore(c) ==
    /\ pc[c] = "load_store"
    /\ cloudLock = NoOne
    /\ IF poisoned
       THEN /\ pc' = [pc EXCEPT ![c] = "panicked"]
            /\ UNCHANGED <<cloud, ret>>
       ELSE /\ cloud' = StoredByLoad(Ok(Unwrap(local[c].cloud)), cloud)
            /\ ret' = [ret EXCEPT ![c] = Returned("load_point_cloud", "Ok", Unwrap(local[c].result))]
            /\ pc' = [pc EXCEPT ![c] = "idle"]
    /\ local' = [local EXCEPT ![c] = NoLocal]
    /\ UNCHANGED <<storeVars, rd, cloudLock, poisoned, status>>

\* state.cloud.lock().unwrap(), the check of the slot and the first status block
ProcessStart(c, options) ==
    /\ pc[c] = "idle"
    /\ cloudLock = NoOne
    /\ IF poisoned
       THEN /\ pc' = [pc EXCEPT ![c] = "panicked"]
            /\ UNCHANGED <<status, cloudLock, local, ret>>
       ELSE /\ status' = StatusOnEntry(status, cloud)
            /\ IF cloud = None
               THEN /\ ret' = [ret EXCEPT ![c] = ErrNoCloud]
                    /\ UNCHANGED <<pc, cloudLock, local>>
               ELSE /\ cloudLock' = c
                    /\ pc' = [pc EXCEPT ![c] = "voxel"]
                    /\ local' = [local EXCEPT ![c] = [NoLocal EXCEPT !.options = Some(options)]]
                    /\ UNCHANGED ret
    /\ UNCHANGED <<storeVars, rd, cloud, poisoned>>

\* if let Some(voxel_size) = options.voxel_size { cloud.voxel_downsample(voxel_size) };
\* a panic unwinds through the guard: the lock is released and poisoned
ProcessVoxel(c) ==
    /\ pc[c] = "voxel"
    /\ LET voxel_size == Unwrap(local[c].options).voxel_size
           s == Unwrap(cloud)
       IN IF voxel_size = None
          THEN /\ pc' = [pc EXCEPT ![c] = "outliers"]
               /\ UNCHANGED <<cloud, cloudLock, poisoned, local>>
          ELSE \E indices \in ValuesOrders(VoxelFirstIndices(s.points, Unwrap(voxel_size))) :
                  /\ cloud' = Some(VoxelResult(s, indices))
                  /\ IF VoxelPanics(s.colors, indices)
                     THEN /\ pc' = [pc EXCEPT ![c] = "panicked"]
                          /\ cloudLock' = NoOne
                          /\ poisoned' = TRUE
                          /\ local' = [local EXCEPT ![c] = NoLocal]
                     ELSE /\ pc' = [pc EXCEPT ![c] = "outliers"]
                          /\ UNCHANGED <<cloudLock, poisoned, local>>
    /\ UNCHANGED <<storeVars, rd, status, ret>>

\* if options.remove_outliers { cloud.remove_outliers(k, std) }
ProcessOutliers(c) ==
    /\ pc[c] = "outliers"
    /\ LET options == Unwrap(local[c].options)
           k == UnwrapOr(options.outlier_k, DefaultOutlierK)
           std == UnwrapOr(options.outlier_std, DefaultOutlierStd)
       IN cloud' = IF options.remove_outliers
                   THEN Some(RemoveOutliersResult(Unwrap(cloud), k, std))
                   ELSE cloud
    /\ pc' = [pc EXCEPT ![c] = "complete"]
    /\ UNCHANGED <<storeVars, rd, cloudLock, poisoned, status, local, ret>>

\* the second status block
ProcessComplete(c) ==
    /\ pc[c] = "complete"
    /\ status' = [stage |-> "Complete", progress |-> 1,
                  point_count |-> Len(Unwrap(cloud).points)]
    /\ pc' = [pc EXCEPT ![c] = "return"]
    /\ UNCHANGED <<storeVars, rd, cloud, cloudLock, poisoned, local, ret>>

\* Ok(cloud.points.len()), and the guard is dropped
ProcessReturn(c) ==
    /\ pc[c] = "return"
    /\ ret' = [ret EXCEPT ![c] = Returned("process_point_cloud", "Ok", Len(Unwrap(cloud).points))]
    /\ cloudLock' = NoOne
    /\ pc' = [pc EXCEPT ![c] = "idle"]
    /\ local' = [local EXCEPT ![c] = NoLocal]
    /\ UNCHANGED <<storeVars, rd, cloud, poisoned, status>>

\* state.status.lock().unwrap().clone()
GetProcessingStatus(c) ==
    /\ pc[c] = "idle"
    /\ ret' = [ret EXCEPT ![c] = Returned("get_processing_status", "Status", status)]
    /\ UNCHANGED <<storeVars, rd, cloud, cloudLock, poisoned, status, pc, local>>

Init ==
    /\ SessionIdle
    /\ store = PointCloudNew
    /\ orig = PointCloudNew
    /\ lastOp = NoOp
    /\ panicked = FALSE
    /\ rd = ReaderIdle

Next ==
    \E c \in Callers :
        \/ \E path \in Paths : LoadParse(c, path)
        \/ LoadStore(c)
        \/ \E options \in OptionSet : ProcessStart(c, options)
        \/ ProcessVoxel(c)
        \/ ProcessOutliers(c)
        \/ ProcessComplete(c)
        \/ ProcessReturn(c)
        \/ GetProcessingStatus(c)

Spec == Init /\ [][Next]_vars

-----------------------------------------------------------------------------
(* Claims about the store (under SpecStore) *)

Aligned(seq, points) == seq = <<>> \/ Len(seq) = Len(points)

\* the (point, colour) pairs of a store, in order
PairSeq(s) ==
    [i \in Indices(s.points) |->
        <<s.points[i], IF i <= Len(s.colors) THEN s.colors[i] ELSE NoColor>>]

Occurrences(x, q) == Cardinality({i \in Indices(q) : q[i] = x})

SameBag(q, r) ==
    /\ Len(q) = Len(r)
    /\ \A i \in Indices(q) : Occurrences(q[i], q) = Occurrences(q[i], r)

\* p and q lie in the same cell of edge v: the floors of their coordinates
\* divided by v agree on every axis
SameCell(p, q, v) == \A a \in 1..3 : p[a] \div v = q[a] \div v

\* the elements of s at the indices of kept, in increasing index order
SubseqAt(s, kept) ==
    [j \in 1..Cardinality(kept) |->
        s[CHOOSE i \in kept : Cardinality({x \in kept : x <= i}) = j]]

AllIdentical(points) == \A i, j \in Indices(points) : points[i] = points[j]

\* C1: a store constructed with colors empty or as long as points keeps, through
\* every sequence of voxel_downsample and remove_outliers calls, colors empty or
\* as long as points, and every (point, colour) pair it holds is a pair of the
\* store as constructed.
C1_ColorAlignment ==
    Aligned(orig.colors, orig.points) =>
        /\ Aligned(store.colors, store.points)
        /\ \A i \in Indices(store.points) :
              \E j \in Indices(orig.points) :
                  /\ store.points[i] = orig.points[j]
                  /\ store.colors # <<>> => store.colors[i] = orig.colors[j]

C1_Witness ==
    /\ Aligned(orig.colors, orig.points)
    /\ lastOp.op = "remove_outliers"
    /\ store.colors # <<>>
    /\ Len(store.points) < Len(orig.points)
    /\ store.colors[1] # orig.colors[1]

\* C2: a store constructed with normals as long as points keeps, through every
\* voxel_downsample and remove_outliers call, normals empty or as long as points.
C2_NormalAlignment ==
    (orig.normals # <<>> /\ Len(orig.normals) = Len(orig.points)) =>
        Aligned(store.normals, store.points)

\* C3 as stated: voxel_downsample applied again with the same voxel size to its
\* own result leaves the points sequence and the colors sequence as they were.
C3_VoxelIdempotentSeq ==
    [][(lastOp'.op = "voxel_downsample" /\ lastOp'.again)
        => (store'.points = store.points /\ store'.colors = store.colors)]_vars

\* C3 as amended: voxel_downsample applied again with the same voxel size to its
\* own result returns without a panic and leaves the length and the bag of
\* (point, colour) pairs as they were; the order of the sequence may change.
C3_VoxelIdempotentBag ==
    [][(lastOp'.op = "voxel_downsample" /\ lastOp'.again)
        => (~panicked' /\ SameBag(PairSeq(store'), PairSeq(store)))]_vars

C3_Witness ==
    /\ lastOp.op = "voxel_downsample"
    /\ lastOp.again
    /\ Len(store.points) >= 2
    /\ store.colors # <<>>

\* C4: voxel_downsample(v), v > 0, keeps exactly one point of every occupied
\* cell, and it is the input point of smallest index in that cell; the result
\* is no longer than the input.
C4_VoxelFirstPerCell ==
    [][lastOp'.op = "voxel_downsample" =>
        LET v == lastOp'.voxel_size
            P == store.points
            Q == store'.points
        IN /\ Len(Q) <= Len(P)
           /\ \A i \in Indices(P) :
                 Cardinality({j \in Indices(Q) : SameCell(Q[j], P[i], v)}) = 1
           /\ \A j \in Indices(Q) :
                 \E i \in Indices(P) :
                     /\ Q[j] = P[i]
                     /\ \A h \in 1..(i - 1) : ~SameCell(P[h], P[i], v)]_vars

C4_Witness ==
    /\ lastOp.op = "voxel_downsample"
    /\ ~lastOp.again
    /\ Len(store.points) >= 2
    /\ Len(store.points) < Len(orig.points)

\* C5: remove_outliers(k, std_ratio) leaves the points alone when there are
\* fewer than k of them, and otherwise leaves, in their input order, exactly the
\* points whose distance to the centroid is strictly below mean distance +
\* std_ratio * standard deviation.
C5_OutliersSubsequence ==
    [][lastOp'.op = "remove_outliers" =>
        LET P == store.points
            Q == store'.points
        IN /\ Len(Q) <= Len(P)
           /\ Len(P) < lastOp'.k => Q = P
           /\ Len(P) >= lastOp'.k =>
                 \E d \in {Distances(P)} :
                    \E t \in {Threshold(d, lastOp'.std_ratio)} :
                       Q = SubseqAt(P, {i \in Indices(P) : FLt(d[i], t)})]_vars

\* two equal points are still in the store, so no voxel_downsample has run, and
\* remove_outliers has removed a point
C5_Witness ==
    /\ lastOp.op = "remove_outliers"
    /\ Len(store.points) < Len(orig.points)
    /\ \E i, j \in Indices(store.points) : i # j /\ store.points[i] = store.points[j]

\* C6: remove_outliers(k, std_ratio) on a store of at least k points that are
\* all the same point leaves the store as it was.
C6_IdenticalPointsRetained ==
    [][(lastOp'.op = "remove_outliers"
          /\ AllIdentical(store.points)
          /\ Len(store.points) >= lastOp'.k)
        => store' = store]_vars

-----------------------------------------------------------------------------
(* Claims about the session (under Spec) *)

InProcess(c) == pc[c] \in {"voxel", "outliers", "complete", "return"}

\* the position after each position of process_point_cloud when nothing unwinds
Following(at) ==
    CASE at = "voxel" -> "outliers"
      [] at = "outliers" -> "complete"
      [] at = "complete" -> "return"
      [] OTHER -> "idle"

\* C8: a load_point_cloud that returns an error leaves the stored cloud and the
\* status as they were, and a load changes the stored cloud only in the step
\* in which it returns Ok (to the cloud it read).
C8_FailedLoadLeavesSession ==
    [][/\ \A c \in Callers :
            (ret'[c] # ret[c] /\ ret'[c].cmd = "load_point_cloud" /\ ret'[c].tag = "Err")
                => (cloud' = cloud /\ status' = status)
       /\ cloud' # cloud =>
            \E c \in Callers :
                \/ pc[c] \in {"voxel", "outliers"} /\ cloudLock = c
                \/ /\ pc[c] = "load_store"
                   /\ ret'[c].cmd = "load_point_cloud"
                   /\ ret'[c].tag = "Ok"
                   /\ cloud' = local[c].cloud]_vars

\* a cloud is loaded and processed, and every caller's last return is a failed load
C8_Witness ==
    /\ cloud # None
    /\ status.stage = "Complete"
    /\ \A c \in Callers : ret[c].cmd = "load_point_cloud" /\ ret[c].tag = "Err"

\* C9: while no cloud is loaded, a process_point_cloud call returns the error
\* "No point cloud loaded" and leaves the status and the empty slot as they
\* were; the status is still the default one as long as the slot is empty.
C9_ProcessWithoutCloud ==
    [][/\ \A c \in Callers :
            (/\ cloud = None
             /\ pc[c] = "idle"
             /\ \/ pc'[c] = "voxel"
                \/ ret'[c] # ret[c] /\ ret'[c].cmd = "process_point_cloud")
                => (ret'[c] = ErrNoCloud /\ pc'[c] = "idle" /\ status' = status /\ cloud' = None)
       /\ cloud' = None => status' = StatusDefault]_vars

C9_Witness ==
    /\ cloud = None
    /\ \E c \in Callers : ret[c] = ErrNoCloud

\* C10: every process_point_cloud call on a loaded cloud marks the status
\* ("Processing", 0.0) before the cloud changes, runs the voxel step, then the
\* outlier step, then marks ("Complete", 1.0, n) and returns n, the stored
\* cloud's point count; while it runs it holds the cloud lock and nobody else
\* changes the cloud or the status.
C10_ProcessRunsToComplete ==
    [][\A c \in Callers :
        /\ (pc[c] = "idle" /\ pc'[c] = "voxel") =>
              /\ status'.stage = "Processing" /\ status'.progress = 0
              /\ cloud' = cloud
              /\ cloudLock' = c
        /\ InProcess(c) =>
              /\ cloudLock = c
              /\ pc'[c] \in {pc[c], Following(pc[c])}
              /\ pc'[c] = pc[c] => (cloud' = cloud /\ status' = status)
        /\ (pc[c] = "complete" /\ pc'[c] = "return") =>
              status' = [stage |-> "Complete", progress |-> 1,
                         point_count |-> Len(Unwrap(cloud).points)]
        /\ (pc[c] = "return" /\ pc'[c] = "idle") =>
              /\ ret'[c] = Returned("process_point_cloud", "Ok", Len(Unwrap(cloud).points))
              /\ status = [stage |-> "Complete", progress |-> 1,
                           point_count |-> Len(Unwrap(cloud).points)]]_vars

====
